---- MODULE Spec2Model ----
(***************************************************************************)
(* Model of the scraping subsystem of happenin-be (apps/scraping):         *)
(* the scheduler tick, manual runs, the retry task, the scrape_website     *)
(* worker, the politeness gate (robots.txt cache and hourly rate counter)  *)
(* and the post_save signals that maintain the per-day ScrapingMetrics.    *)
(*                                                                         *)
(* Time is counted in minutes.  now \div 60 is the calendar hour that      *)
(* check_rate_limit/update_rate_limit use as cache-key suffix, and         *)
(* now \div 1440 is the date used for the ScrapingMetrics rows.            *)
(***************************************************************************)
EXTENDS Integers, Sequences, FiniteSets, TLC

\* ------------------------------------------------------------------ bounds
MaxJobs == 2
MaxRedeliveries == 1
MaxAdvances == 1
MaxRetryJobs == 5
MaxProcessed == 1
MaxRules == 2
MaxNotifications == 2

\* ------------------------------------------------------- program constants
SecondsPerHour == 3600
RobotsCacheSeconds == 3600
DefaultMaxRetries == 3
HourlyMinutes == 60
DailyMinutes == 1440
WeeklyMinutes == 10080
MonthlyMinutes == 43200

MinutesPerHour == SecondsPerHour \div 60
MinutesPerDay == 24 * MinutesPerHour
RobotsCacheTtl == RobotsCacheSeconds \div 60

NULL == -1

Targets == {1, 2}
TargetOrder == <<1, 2>>
Workers == {"w1", "w2"}
AdvanceSteps == {1, MinutesPerHour, MinutesPerDay}
RateLimits == {1, 2}
MaxRetriesArgs == {1, DefaultMaxRetries}

\* Paths and robots.txt rule values are strings, modelled as sequences of
\* characters so that str.startswith is a real prefix test.
StartsWith(s, prefix) ==
    /\ Len(prefix) <= Len(s)
    /\ \A i \in 1 .. Len(prefix) : s[i] = prefix[i]

DefaultUserAgent == "happenin Scraper Bot"

\* The two sites of the model: what each host answers for /robots.txt.
RobotsTxt(host) ==
    IF host = "closed.test"
    THEN << [directive |-> "user-agent", value |-> "*"],
            [directive |-> "disallow",   value |-> <<"/">>] >>
    ELSE << [directive |-> "user-agent", value |-> "*"],
            [directive |-> "disallow",   value |-> <<"/", "p">>],
            [directive |-> "user-agent", value |-> "otherbot"],
            [directive |-> "disallow",   value |-> <<"/">>] >>

TargetUrl(t) ==
    IF t = 1 THEN [host |-> "open.test",   path |-> <<"/", "a">>]
             ELSE [host |-> "closed.test", path |-> <<"/", "a">>]

VARIABLES
    now,           \* wall clock, minutes
    advances,      \* number of clock advances taken so far
    targets,       \* ScrapingTarget rows
    jobs,          \* ScrapingJob rows, id = index
    ghost,         \* per job: history the code does not store (see NewGhost)
    scraped_data,  \* ScrapedData rows, keyed by id
    data_seq,      \* the last id the ScrapedData table has handed out
    metrics,       \* ScrapingMetrics rows, keyed by <<target, date>>
    rate_cache,    \* cache entries "rate_limit:target:<id>:<hour>"
    robots_cache,  \* cache entries "robots_txt:<netloc>"
    queue,         \* per job id: scrape_website messages not yet delivered
    delivered,     \* per job id: messages enqueued so far
    workers,       \* the running scrape_website invocations
    probe,         \* one call of a function looked at on its own (parse_robots_txt,
                   \* extract_data_from_page): its arguments and result
    notifications, \* Notification rows, keyed by id
    logs           \* ScrapingLog rows of level error or warning: how many per
                   \* <<target, level, created_at>>

vars == <<now, advances, targets, jobs, ghost, scraped_data, data_seq, metrics,
          rate_cache, robots_cache, queue, delivered, workers, probe,
          notifications, logs>>

\* ------------------------------------------------------------ ScrapingTarget
\* A faulty variant that falls back to one hour for a custom frequency
\* without an interval; NextScrapeRecomputed does not survive it.
get_interval_minutes_hour_fallback(target) ==
    CASE target.frequency = "hourly"  -> HourlyMinutes
      [] target.frequency = "daily"   -> DailyMinutes
      [] target.frequency = "weekly"  -> WeeklyMinutes
      [] target.frequency = "monthly" -> MonthlyMinutes
      [] target.frequency = "custom"  ->
            IF target.custom_interval_minutes = NULL
               \/ target.custom_interval_minutes = 0
            THEN HourlyMinutes ELSE target.custom_interval_minutes
      [] OTHER -> DailyMinutes

get_interval_minutes(target) ==
    CASE target.frequency = "hourly"  -> HourlyMinutes
      [] target.frequency = "daily"   -> DailyMinutes
      [] target.frequency = "weekly"  -> WeeklyMinutes
      [] target.frequency = "monthly" -> MonthlyMinutes
      [] target.frequency = "custom"  ->
            IF target.custom_interval_minutes = NULL
               \/ target.custom_interval_minutes = 0
            THEN DailyMinutes ELSE target.custom_interval_minutes
      [] OTHER -> DailyMinutes

calculate_next_scrape(target, t_now) ==
    IF target.last_scraped = NULL THEN t_now
    ELSE target.last_scraped + get_interval_minutes(target)

\* ScrapingTarget.save() of an existing row: `old` is the stored row, `new`
\* the instance being saved.
SaveTarget(old, new, t_now) ==
    IF old.last_scraped # new.last_scraped
    THEN [new EXCEPT !.next_scrape_at = calculate_next_scrape(new, t_now)]
    ELSE new

\* --------------------------------------------------------------- rate limit
current_hour(t_now) == t_now \div MinutesPerHour

CacheGetCount(cache, key) == IF key \in DOMAIN cache THEN cache[key] ELSE 0

check_rate_limit(cache, t, target, t_now) ==
    CacheGetCount(cache, <<t, current_hour(t_now)>>) < target.max_requests_per_hour

CacheSet(cache, key, value) ==
    [k \in DOMAIN cache \cup {key} |-> IF k = key THEN value ELSE cache[k]]

\* ---------------------------------------------------------------- job rows
\* ScrapingJob.objects.create(target=..., job_type=..., scheduled_at=now)
NewJob(t, job_type, t_now) ==
    [target |-> t, status |-> "pending", job_type |-> job_type,
     scheduled_at |-> t_now, started_at |-> NULL, completed_at |-> NULL,
     success |-> "null", error_message |-> "", items_scraped |-> 0,
     response_time_ms |-> NULL, response_size_bytes |-> NULL,
     created_at |-> t_now]

\* History kept beside a job row for stating properties; the code stores
\* none of it: whether check_rate_limit was consulted and passed when the
\* job was created, which failed job a retry job was created for (the code
\* only logs it), the calendar hour of every page fetch made for it, and
\* job.response_time_ms and job.response_size_bytes, which the worker sets on
\* the instance only.
NewGhost(gated, retry_of) ==
    [gated |-> gated, retry_of |-> retry_of, fetch_hours |-> <<>>,
     response_time_ms |-> NULL, response_size_bytes |-> 0]

Enqueue(q, j) == [q EXCEPT ![j] = @ + 1]

RECURSIVE SumSeq(_)
SumSeq(q) == IF q = <<>> THEN 0 ELSE q[1] + SumSeq(Tail(q))

\* --------------------------------------------------------------- robots.txt
\* The user agent whose group line i of the file stands under: the value of
\* the last User-agent line before it, "" (None in the code) when there is none.
RECURSIVE current_user_agent(_, _)
current_user_agent(content, i) ==
    IF i <= 1 THEN ""
    ELSE IF content[i - 1].directive = "user-agent" THEN content[i - 1].value
    ELSE current_user_agent(content, i - 1)

\* A faulty variant that reads only the group named after the user agent and
\* overlooks the "*" group; NeverFetchedWhenRespected does not survive it.
RuleIndexesOwnGroupOnly(content, user_agent, directive) ==
    {i \in 1 .. Len(content) :
        /\ content[i].directive = directive
        /\ current_user_agent(content, i) = user_agent}

RuleIndexes(content, user_agent, directive) ==
    {i \in 1 .. Len(content) :
        /\ content[i].directive = directive
        /\ current_user_agent(content, i) \in {"*", user_agent}}

parse_robots_txt(content, user_agent, path) ==
    LET disallow_rules == RuleIndexes(content, user_agent, "disallow")
        allow_rules    == RuleIndexes(content, user_agent, "allow")
        AllowMatches   == \E a \in allow_rules : StartsWith(path, content[a].value)
        \* the loop returns False at the first disallow rule that blocks
        Blocks(d) == \/ content[d].value = <<"/">>
                     \/ StartsWith(path, content[d].value) /\ ~AllowMatches
    IN  ~ \E d \in disallow_rules : Blocks(d)

RobotsResponses == {"ok", "not_found", "error"}

CacheLive(entry, t_now) == entry.expires # NULL /\ t_now < entry.expires

\* is_robots_txt_allowed(url): the decision and the cache entry of the host
\* afterwards.  `response` is what requests.get(robots_url) does on a miss:
\* a 200 with the file, another status, or an exception.
is_robots_txt_allowed(entry, response, url, t_now) ==
    IF CacheLive(entry, t_now)
    THEN [allowed |-> entry.value, entry |-> entry]
    ELSE IF response = "error"
    THEN [allowed |-> TRUE, entry |-> entry]
    ELSE IF response = "not_found"
    THEN [allowed |-> TRUE,
          entry |-> [value |-> TRUE, expires |-> t_now + RobotsCacheTtl]]
    ELSE LET allowed == parse_robots_txt(RobotsTxt(url.host), DefaultUserAgent,
                                         url.path)
         IN  [allowed |-> allowed,
              entry |-> [value |-> allowed, expires |-> t_now + RobotsCacheTtl]]

\* ------------------------------------------------------------ ScrapingJob
mark_started(job, t_now) ==
    [job EXCEPT !.status = "running", !.started_at = t_now]

\* save(update_fields=[status, completed_at, success, items_scraped,
\* error_message]): response_time_ms and response_size_bytes, set on the
\* instance by the worker, are not among the saved fields.
mark_completed(job, success, items_scraped, error_message, t_now) ==
    [job EXCEPT !.status = "completed", !.completed_at = t_now,
                !.success = success, !.items_scraped = items_scraped,
                !.error_message = error_message]

mark_failed(job, error_message, t_now) ==
    [job EXCEPT !.status = "failed", !.completed_at = t_now,
                !.success = "false", !.error_message = error_message]

\* ---------------------------------------------------------- ScrapingMetrics
today(t_now) == t_now \div MinutesPerDay

ZeroMetrics ==
    [jobs_scheduled |-> 0, jobs_completed |-> 0, jobs_failed |-> 0,
     items_scraped |-> 0, data_processed |-> 0, avg_response_time_ms |-> NULL,
     total_response_size_bytes |-> 0, errors_count |-> 0, warnings_count |-> 0]

\* ScrapingMetrics.objects.get_or_create(target=, date=, defaults=zeros)
get_or_create(rows, key) ==
    IF key \in DOMAIN rows THEN rows
    ELSE [k \in DOMAIN rows \cup {key} |-> IF k = key THEN ZeroMetrics ELSE rows[k]]

\* metrics.save(): the whole row is written back from the instance.
SaveMetrics(rows, key, row) ==
    [k \in DOMAIN rows \cup {key} |-> IF k = key THEN row ELSE rows[k]]

\* The rows the signal's existing_jobs query selects: same target, completed,
\* a stored response time, created today, the saved job excluded.
existing_jobs(rows, j, t, t_now) ==
    {k \in DOMAIN rows :
        /\ k # j
        /\ rows[k].target = t
        /\ rows[k].status = "completed"
        /\ rows[k].response_time_ms # NULL
        /\ today(rows[k].created_at) = today(t_now)}

\* update_metrics_on_job_completion for a saved instance whose status is
\* completed: the row as the handler changes it before metrics.save().
\* `inst` is the in-memory job: the row plus the fields set on the instance.
\* With a non-empty existing_jobs the handler evaluates models.Avg, a name
\* signals.py never imports: it raises, nothing is saved, and the handler
\* writes an error log instead (raised |-> TRUE).
update_metrics_on_job_completion(row, inst, j, rows, t_now) ==
    LET counted == IF inst.success = "true"
                   THEN [row EXCEPT !.jobs_completed = @ + 1]
                   ELSE [row EXCEPT !.jobs_failed = @ + 1]
        has_time == inst.response_time_ms # NULL /\ inst.response_time_ms # 0
        raises   == has_time /\ existing_jobs(rows, j, inst.target, t_now) # {}
        timed    == IF has_time
                    THEN [counted EXCEPT !.avg_response_time_ms = inst.response_time_ms]
                    ELSE counted
        sized    == IF inst.response_size_bytes # NULL /\ inst.response_size_bytes # 0
                    THEN [timed EXCEPT !.total_response_size_bytes =
                                            @ + inst.response_size_bytes]
                    ELSE timed
        itemed   == IF inst.items_scraped # 0
                    THEN [sized EXCEPT !.items_scraped = @ + inst.items_scraped]
                    ELSE sized
    IN  IF raises THEN [raised |-> TRUE, row |-> row]
        ELSE [raised |-> FALSE, row |-> itemed]

\* update_metrics_on_log_creation: the row as changed before metrics.save().
update_metrics_on_log_creation(row, level) ==
    IF level = "error" THEN [row EXCEPT !.errors_count = @ + 1]
    ELSE IF level = "warning" THEN [row EXCEPT !.warnings_count = @ + 1]
    ELSE row

RECURSIVE SumOver(_, _)
SumOver(S, f) ==
    IF S = {} THEN 0
    ELSE LET x == CHOOSE y \in S : TRUE IN f[x] + SumOver(S \ {x}, f)

\* ScrapingLog.objects.create(target=t, level=level, ...) called n times at
\* t_now.
AddLogs(rows, t, level, t_now, n) ==
    LET key == <<t, level, t_now>>
    IN  IF n = 0 THEN rows
        ELSE [k \in DOMAIN rows \cup {key} |->
                 IF k = key
                 THEN (IF k \in DOMAIN rows THEN rows[k] ELSE 0) + n
                 ELSE rows[k]]

\* ------------------------------------------------------------------- Init
NewTarget(t, frequency, custom_interval_minutes, max_requests_per_hour, respect_robots_txt, t_now) ==
    [status |-> "active", frequency |-> frequency,
     custom_interval_minutes |-> custom_interval_minutes,
     max_requests_per_hour |-> max_requests_per_hour,
     respect_robots_txt |-> respect_robots_txt,
     url |-> TargetUrl(t),
     last_scraped |-> NULL, next_scrape_at |-> t_now]

NoInst ==
    [target |-> 0, success |-> "null", response_time_ms |-> NULL,
     response_size_bytes |-> NULL, items_scraped |-> 0, storable |-> FALSE,
     error |-> ""]

IdleWorker ==
    [pc |-> "idle", job |-> 0, inst |-> NoInst, m_key |-> <<0, 0>>,
     m_row |-> ZeroMetrics, after |-> "idle", rl_hour |-> NULL, rl_count |-> 0]

NoEntry == [value |-> TRUE, expires |-> NULL]

\* Target 1 is on the open site and scraped every minute, target 2 on the
\* closed site and scraped hourly.
Target1(max_requests_per_hour) ==
    NewTarget(1, "custom", 1, max_requests_per_hour, TRUE, 0)

Target2(max_requests_per_hour, respect_robots_txt) ==
    NewTarget(2, "hourly", NULL, max_requests_per_hour, respect_robots_txt, 0)

\* The admin action make_paused applied to a target.
Paused(target) == [target EXCEPT !.status = "paused"]

\* The state after the operator has set up the targets table as one of
\* `tables`, before any job exists.
InitTables(tables) ==
    /\ now = 0
    /\ advances = 0
    /\ targets \in tables
    /\ jobs = <<>>
    /\ ghost = <<>>
    /\ scraped_data = <<>>
    /\ data_seq = 0
    /\ metrics = <<>>
    /\ rate_cache = <<>>
    /\ robots_cache = [h \in {TargetUrl(t).host : t \in Targets} |-> NoEntry]
    /\ queue = <<>>
    /\ delivered = <<>>
    /\ workers = [w \in Workers |-> IdleWorker]
    /\ notifications = <<>>
    /\ logs = <<>>

\* No call of parse_robots_txt is being looked at.
NoProbe == [content |-> <<>>, path |-> <<>>, done |-> FALSE, allowed |-> TRUE]

InitWith(tables) == InitTables(tables) /\ probe = NoProbe

AllTables ==
    {[t \in Targets |-> IF t = 1 THEN Target1(n1) ELSE Target2(n2, r2)] :
        n1 \in RateLimits, n2 \in RateLimits, r2 \in BOOLEAN}

Init == InitWith(AllTables)

\* ------------------------------------------------- scrape_scheduled_targets
\* A faulty variant of the filter that forgets the status;
\* ScheduledOnlyWhenActiveAndDue does not survive it.
IsDueWhateverStatus(target, t_now) ==
    /\ target.next_scrape_at # NULL
    /\ target.next_scrape_at <= t_now

\* The queryset filter of the tick: status = active and next_scrape_at <= now.
IsDue(target, t_now) ==
    /\ target.status = "active"
    /\ target.next_scrape_at # NULL
    /\ target.next_scrape_at <= t_now

\* A faulty variant of the loop that stamps last_scraped on a target the gate
\* has denied; DenialLeavesTargetDue does not survive it.
RECURSIVE ScheduleLoopStampingDenied(_, _, _)
ScheduleLoopStampingDenied(i, st, t_now) ==
    IF i > Len(TargetOrder) THEN st
    ELSE LET t       == TargetOrder[i]
             target  == st.targets[t]
             stamped == [st.targets EXCEPT ![t] =
                            SaveTarget(target, [target EXCEPT !.last_scraped = t_now],
                                       t_now)]
         IN  IF ~IsDue(target, t_now)
             THEN ScheduleLoopStampingDenied(i + 1, st, t_now)
             ELSE IF ~check_rate_limit(rate_cache, t, target, t_now)
             THEN ScheduleLoopStampingDenied(i + 1, [st EXCEPT !.targets = stamped],
                                             t_now)
             ELSE ScheduleLoopStampingDenied(i + 1,
                    [jobs    |-> Append(st.jobs, NewJob(t, "scheduled", t_now)),
                     ghost   |-> Append(st.ghost, NewGhost(TRUE, 0)),
                     targets |-> stamped],
                    t_now)

\* One pass of the for loop over the due targets, in the queryset's order.
RECURSIVE ScheduleLoop(_, _, _)
ScheduleLoop(i, st, t_now) ==
    IF i > Len(TargetOrder) THEN st
    ELSE LET t      == TargetOrder[i]
             target == st.targets[t]
             due    == IsDue(target, t_now)
         IN  IF ~due \/ ~check_rate_limit(rate_cache, t, target, t_now)
             THEN ScheduleLoop(i + 1, st, t_now)
             ELSE ScheduleLoop(i + 1,
                    [jobs    |-> Append(st.jobs, NewJob(t, "scheduled", t_now)),
                     ghost   |-> Append(st.ghost, NewGhost(TRUE, 0)),
                     targets |-> [st.targets EXCEPT ![t] =
                                    SaveTarget(target,
                                               [target EXCEPT !.last_scraped = t_now],
                                               t_now)]],
                    t_now)

scrape_scheduled_targets(max_jobs) ==
    LET st == ScheduleLoop(1, [jobs |-> jobs, ghost |-> ghost,
                               targets |-> targets], now)
    IN  /\ Len(st.jobs) <= max_jobs
        /\ jobs' = st.jobs
        /\ ghost' = st.ghost
        /\ targets' = st.targets
        /\ queue' = queue \o [j \in 1 .. Len(st.jobs) - Len(jobs) |-> 1]
        /\ delivered' = delivered \o [j \in 1 .. Len(st.jobs) - Len(jobs) |-> 1]
        /\ UNCHANGED <<now, advances, scraped_data, data_seq, probe, metrics, rate_cache,
                       robots_cache, workers, notifications, logs>>

\* ----------------------------------------------------- scrape_target_manual
scrape_target_manual(t, max_jobs) ==
    LET j == Len(jobs) + 1
    IN  /\ j <= max_jobs
        /\ jobs' = Append(jobs, NewJob(t, "manual", now))
        /\ ghost' = Append(ghost, NewGhost(FALSE, 0))
        /\ queue' = Append(queue, 1)
        /\ delivered' = Append(delivered, 1)
        /\ UNCHANGED <<now, advances, targets, scraped_data, data_seq, probe, metrics,
                       rate_cache, robots_cache, workers, notifications, logs>>

\* --------------------------------------------------------- retry_failed_jobs
\* The failed jobs of active targets, newest first (Meta.ordering).
RECURSIVE RetryLoop(_, _)
RetryLoop(k, st) ==
    IF k < 1 THEN st
    ELSE IF jobs[k].status = "failed" /\ targets[jobs[k].target].status = "active"
    THEN RetryLoop(k - 1,
            [jobs    |-> Append(st.jobs, NewJob(jobs[k].target, "retry", now)),
             ghost   |-> Append(st.ghost, NewGhost(FALSE, k))])
    ELSE RetryLoop(k - 1, st)

\* A faulty variant that puts the failed jobs back to pending as well;
\* RetryLeavesOriginalAlone does not survive it.
retry_failed_jobs_resurrecting(max_retries, max_jobs) ==
    LET st == RetryLoop(Len(jobs), [jobs |-> jobs, ghost |-> ghost])
    IN  /\ Len(st.jobs) <= max_jobs
        /\ jobs' = [j \in DOMAIN st.jobs |->
                       IF st.jobs[j].status = "failed"
                       THEN [st.jobs[j] EXCEPT !.status = "pending"]
                       ELSE st.jobs[j]]
        /\ ghost' = st.ghost
        /\ queue' = queue \o [j \in 1 .. Len(st.jobs) - Len(jobs) |-> 1]
        /\ delivered' = delivered \o [j \in 1 .. Len(st.jobs) - Len(jobs) |-> 1]
        /\ UNCHANGED <<now, advances, targets, scraped_data, data_seq, probe, metrics,
                       rate_cache, robots_cache, workers, notifications, logs>>

\* max_retries is the task's argument; the body never reads it.
retry_failed_jobs(max_retries, max_jobs) ==
    LET st == RetryLoop(Len(jobs), [jobs |-> jobs, ghost |-> ghost])
    IN  /\ Len(st.jobs) <= max_jobs
        /\ jobs' = st.jobs
        /\ ghost' = st.ghost
        /\ queue' = queue \o [j \in 1 .. Len(st.jobs) - Len(jobs) |-> 1]
        /\ delivered' = delivered \o [j \in 1 .. Len(st.jobs) - Len(jobs) |-> 1]
        /\ UNCHANGED <<now, advances, targets, scraped_data, data_seq, probe, metrics,
                       rate_cache, robots_cache, workers, notifications, logs>>

\* ------------------------------------------------------------ scrape_website
\* What scraper.scrape(url) can hand back (ScrapingResult) and what the worker
\* measures around it.  A fetch error and a parse error both come back as a
\* result whose title, content and raw_html are None; ScrapedData.objects
\* .create then violates the NOT NULL columns and raises (storable = FALSE).
FetchError == "HTTPConnectionPool: Read timed out"
ParseError == "Parse error: invalid document"

FetchResults ==
    { [kind |-> "ok",          storable |-> TRUE,  raw_len |-> 7,
       response_time_ms |-> 5, items |-> 2, error |-> ""],
      [kind |-> "ok",          storable |-> TRUE,  raw_len |-> 3,
       response_time_ms |-> 0, items |-> 0, error |-> ""],
      [kind |-> "fetch_error", storable |-> FALSE, raw_len |-> NULL,
       response_time_ms |-> 5, items |-> 0, error |-> FetchError],
      [kind |-> "parse_error", storable |-> FALSE, raw_len |-> NULL,
       response_time_ms |-> 5, items |-> 0, error |-> ParseError] }

RobotsDisallowed == "Scraping not allowed by robots.txt"
IntegrityError == "IntegrityError: NOT NULL constraint failed"

\* The except branch of scrape_website for worker w and job j: mark_failed,
\* then the error log, whose post_save handler reads today's metrics row.
FailJob(w, j, error_msg) ==
    LET t   == jobs[j].target
        key == <<t, today(now)>>
        rows == get_or_create(metrics, key)
    IN  /\ jobs' = [jobs EXCEPT ![j] = mark_failed(@, error_msg, now)]
        /\ metrics' = rows
        /\ logs' = AddLogs(logs, t, "error", now, 1)
        /\ workers' = [workers EXCEPT ![w] =
               [@ EXCEPT !.pc = "save_metrics", !.after = "idle",
                         !.inst = [@ EXCEPT !.success = "false"],
                         !.m_key = key,
                         !.m_row = update_metrics_on_log_creation(rows[key], "error")]]

\* A message for job j reaches worker w: the row is loaded and mark_started
\* is saved.  Nothing looks at the status the row had.
Deliver(w, j) ==
    /\ workers[w].pc = "idle"
    /\ j \in 1 .. Len(jobs)
    /\ queue[j] > 0
    /\ queue' = [queue EXCEPT ![j] = @ - 1]
    /\ jobs' = [jobs EXCEPT ![j] = mark_started(@, now)]
    /\ workers' = [workers EXCEPT ![w] =
           [IdleWorker EXCEPT !.pc = "started", !.job = j,
                              !.inst = [NoInst EXCEPT !.target = jobs[j].target,
                                                      !.success = jobs[j].success,
                                                      !.items_scraped = jobs[j].items_scraped]]]
    /\ UNCHANGED <<now, advances, targets, ghost, scraped_data, data_seq, probe, metrics,
                   rate_cache, robots_cache, delivered, notifications, logs>>

\* The robots.txt check and, when it passes, the page fetch and the
\* measurements set on the instance.
Fetch(w, response, result) ==
    LET j      == workers[w].job
        target == targets[jobs[j].target]
        host   == target.url.host
        dec    == is_robots_txt_allowed(robots_cache[host], response, target.url, now)
        denied == target.respect_robots_txt /\ ~dec.allowed
    IN  /\ workers[w].pc = "started"
        /\ robots_cache' = IF target.respect_robots_txt
                           THEN [robots_cache EXCEPT ![host] = dec.entry]
                           ELSE robots_cache
        /\ IF denied
           THEN /\ FailJob(w, j, RobotsDisallowed)
                /\ UNCHANGED ghost
           ELSE /\ ghost' = [ghost EXCEPT
                                ![j].fetch_hours = Append(@, current_hour(now)),
                                ![j].response_time_ms = result.response_time_ms,
                                ![j].response_size_bytes =
                                    IF result.raw_len = NULL THEN 0
                                    ELSE result.raw_len]
                /\ workers' = [workers EXCEPT ![w] =
                       [@ EXCEPT !.pc = "fetched",
                                 !.inst = [@ EXCEPT
                                    !.response_time_ms = result.response_time_ms,
                                    !.response_size_bytes =
                                        IF result.raw_len = NULL THEN 0
                                        ELSE result.raw_len,
                                    !.items_scraped = result.items,
                                    !.storable = result.storable,
                                    !.error = result.error]]]
                /\ UNCHANGED <<jobs, metrics, logs>>
        /\ UNCHANGED <<now, advances, targets, scraped_data, data_seq, probe, rate_cache,
                       queue, delivered, notifications>>

\* ScrapedData.objects.create and mark_completed, whose post_save handler
\* reads today's metrics row; or the except branch when the create raises.
Persist(w) ==
    LET j    == workers[w].job
        inst == workers[w].inst
        t    == jobs[j].target
        key  == <<t, today(now)>>
        rows == get_or_create(metrics, key)
        done == [inst EXCEPT !.success = "true"]
        upd  == update_metrics_on_job_completion(rows[key], done, j, jobs, now)
    IN  /\ workers[w].pc = "fetched"
        /\ IF inst.storable
           THEN /\ scraped_data' = scraped_data @@ (data_seq + 1 :>
                        [job |-> j, status |-> "raw", scraped_at |-> now,
                         processed_at |-> NULL])
                /\ data_seq' = data_seq + 1
                /\ jobs' = [jobs EXCEPT ![j] =
                              mark_completed(@, "true", inst.items_scraped, "", now)]
                /\ metrics' = rows
                /\ logs' = AddLogs(logs, t, "error", now, IF upd.raised THEN 1 ELSE 0)
                /\ workers' = [workers EXCEPT ![w] =
                       [@ EXCEPT !.pc = "save_metrics", !.after = "rate_read",
                                 !.inst = done, !.m_key = key,
                                 !.m_row = IF upd.raised
                                           THEN update_metrics_on_log_creation(
                                                    rows[key], "error")
                                           ELSE upd.row]]
           ELSE /\ FailJob(w, j, IntegrityError)
                /\ UNCHANGED <<scraped_data, data_seq>>
        /\ UNCHANGED <<now, advances, targets, ghost, rate_cache, robots_cache,
                       queue, delivered, probe, notifications>>

\* metrics.save() of the handler that read the row.
SaveMetricsRow(w) ==
    /\ workers[w].pc = "save_metrics"
    /\ metrics' = SaveMetrics(metrics, workers[w].m_key, workers[w].m_row)
    /\ workers' = [workers EXCEPT ![w] =
           IF workers[w].after = "idle" THEN IdleWorker
           ELSE [@ EXCEPT !.pc = workers[w].after, !.m_key = <<0, 0>>,
                          !.m_row = ZeroMetrics]]
    /\ UNCHANGED <<now, advances, targets, jobs, ghost, scraped_data, data_seq, probe,
                   rate_cache, robots_cache, queue, delivered, notifications, logs>>

\* update_rate_limit: cache.get of the hour's counter ...
RateRead(w) ==
    /\ workers[w].pc = "rate_read"
    /\ workers' = [workers EXCEPT ![w] =
           [@ EXCEPT !.pc = "rate_write", !.rl_hour = current_hour(now),
                     !.rl_count = CacheGetCount(rate_cache,
                                      <<workers[w].inst.target, current_hour(now)>>)]]
    /\ UNCHANGED <<now, advances, targets, jobs, ghost, scraped_data, data_seq, probe, metrics,
                   rate_cache, robots_cache, queue, delivered, notifications, logs>>

\* ... and cache.set of the value read plus one; the task returns.
RateWrite(w) ==
    /\ workers[w].pc = "rate_write"
    /\ rate_cache' = CacheSet(rate_cache,
                              <<workers[w].inst.target, workers[w].rl_hour>>,
                              workers[w].rl_count + 1)
    /\ workers' = [workers EXCEPT ![w] = IdleWorker]
    /\ UNCHANGED <<now, advances, targets, jobs, ghost, scraped_data, data_seq, probe, metrics,
                   robots_cache, queue, delivered, notifications, logs>>

\* ------------------------------------------------------------- environment
\* acks_late delivery: a message that reached a worker is delivered again
\* (worker lost before the acknowledgement, or visibility timeout).
Redeliver(j, max_redeliveries) ==
    /\ j \in 1 .. Len(jobs)
    /\ jobs[j].started_at # NULL
    /\ SumSeq(delivered) - Len(jobs) < max_redeliveries
    /\ queue' = Enqueue(queue, j)
    /\ delivered' = Enqueue(delivered, j)
    /\ UNCHANGED <<now, advances, targets, jobs, ghost, scraped_data, data_seq, probe, metrics,
                   rate_cache, robots_cache, workers, notifications, logs>>

\* The admin actions make_active, make_paused and make_disabled on target t:
\* queryset.update(status=...), which does not go through save().
make_active(t) ==
    /\ targets[t].status # "active"
    /\ targets' = [targets EXCEPT ![t].status = "active"]
    /\ UNCHANGED <<now, advances, jobs, ghost, scraped_data, data_seq, probe, metrics,
                   rate_cache, robots_cache, queue, delivered, workers, notifications, logs>>

make_paused(t) ==
    /\ targets[t].status # "paused"
    /\ targets' = [targets EXCEPT ![t].status = "paused"]
    /\ UNCHANGED <<now, advances, jobs, ghost, scraped_data, data_seq, probe, metrics,
                   rate_cache, robots_cache, queue, delivered, workers, notifications, logs>>

make_disabled(t) ==
    /\ targets[t].status # "disabled"
    /\ targets' = [targets EXCEPT ![t].status = "disabled"]
    /\ UNCHANGED <<now, advances, jobs, ghost, scraped_data, data_seq, probe, metrics,
                   rate_cache, robots_cache, queue, delivered, workers, notifications, logs>>

\* An operator sets a pending or running job to cancelled in the admin form.
Cancel(j) ==
    /\ j \in 1 .. Len(jobs)
    /\ jobs[j].status \in {"pending", "running"}
    /\ jobs' = [jobs EXCEPT ![j].status = "cancelled"]
    /\ UNCHANGED <<now, advances, targets, ghost, scraped_data, data_seq, probe, metrics,
                   rate_cache, robots_cache, queue, delivered, workers, notifications, logs>>

Advance(d, max_advances) ==
    /\ advances < max_advances
    /\ now' = now + d
    /\ advances' = advances + 1
    /\ UNCHANGED <<targets, jobs, ghost, scraped_data, data_seq, probe, metrics, rate_cache,
                   robots_cache, queue, delivered, workers, notifications, logs>>

\* ---------------------------------------------------------------- ScrapedData
DataStatuses == {"raw", "processed", "archived"}

\* An operator changes the status of row i in the admin form.  The save runs
\* the post_save handlers: a row saved as processed adds one to the day's
\* data_processed of its target; max_processed caps that counter.
scraped_data_saved(i, status, max_processed) ==
    LET key  == <<jobs[scraped_data[i].job].target, today(now)>>
        rows == get_or_create(metrics, key)
    IN  /\ i \in DOMAIN scraped_data
        /\ scraped_data[i].status # status
        /\ status = "processed" => rows[key].data_processed < max_processed
        /\ scraped_data' = [scraped_data EXCEPT ![i].status = status]
        /\ metrics' = IF status = "processed"
                      THEN [rows EXCEPT ![key].data_processed = @ + 1]
                      ELSE metrics
        /\ UNCHANGED <<now, advances, targets, jobs, ghost, data_seq, rate_cache,
                       robots_cache, queue, delivered, workers, probe, notifications, logs>>

\* ScrapedData.mark_processed on row i, whatever its status: status and
\* processed_at are saved, and the post_save handler counts the row in the
\* day's data_processed of its target; max_processed caps that counter.
mark_processed(i, max_processed) ==
    LET key  == <<jobs[scraped_data[i].job].target, today(now)>>
        rows == get_or_create(metrics, key)
    IN  /\ i \in DOMAIN scraped_data
        /\ rows[key].data_processed < max_processed
        /\ scraped_data' = [scraped_data EXCEPT ![i].status = "processed",
                                                ![i].processed_at = now]
        /\ metrics' = [rows EXCEPT ![key].data_processed = @ + 1]
        /\ UNCHANGED <<now, advances, targets, jobs, ghost, data_seq, rate_cache,
                       robots_cache, queue, delivered, workers, probe, notifications, logs>>

\* ---------------------------------------------------------- cleanup_old_data
DefaultDaysToKeep == 30
MetricsDaysToKeep == 90
DaysToKeepArgs == {DefaultDaysToKeep, MetricsDaysToKeep + 1}

\* A faulty variant of the filter that forgets the status;
\* CleanupDeletesOldArchived does not survive it.
ExpiredWhateverStatus(rows, cutoff_date) ==
    {i \in DOMAIN rows : rows[i].scraped_at < cutoff_date}

\* ScrapedData.objects.filter(scraped_at__lt=cutoff_date, status=ARCHIVED)
Expired(rows, cutoff_date) ==
    {i \in DOMAIN rows :
        rows[i].scraped_at < cutoff_date /\ rows[i].status = "archived"}

\* The warning log that post_delete writes for each deleted row adds one to
\* today's warnings_count of the row's target.
WarnDeleted(rows, deleted, t_today) ==
    LET keys    == {<<jobs[scraped_data[i].job].target, t_today>> : i \in deleted}
        OfKey(k) == {i \in deleted : jobs[scraped_data[i].job].target = k[1]}
    IN  [k \in DOMAIN rows \cup keys |->
            LET row == IF k \in DOMAIN rows THEN rows[k] ELSE ZeroMetrics
            IN  IF k \in keys
                THEN [row EXCEPT !.warnings_count = @ + Cardinality(OfKey(k))]
                ELSE row]

\* The warning log rows themselves, one per deleted row.
LogDeleted(rows, deleted, t_now) ==
    LET keys == {<<jobs[scraped_data[i].job].target, "warning", t_now>> : i \in deleted}
        OfKey(k) == {i \in deleted : jobs[scraped_data[i].job].target = k[1]}
    IN  [k \in DOMAIN rows \cup keys |->
            (IF k \in DOMAIN rows THEN rows[k] ELSE 0)
                + (IF k \in keys THEN Cardinality(OfKey(k)) ELSE 0)]

\* The task: delete the expired rows, then the log rows created before the
\* cutoff, then the metrics rows dated more than MetricsDaysToKeep days ago.
cleanup_old_data(days_to_keep) ==
    LET cutoff_date    == now - days_to_keep * MinutesPerDay
        deleted        == Expired(scraped_data, cutoff_date)
        metrics_cutoff == today(now - MetricsDaysToKeep * MinutesPerDay)
        warned         == WarnDeleted(metrics, deleted, today(now))
        logged         == LogDeleted(logs, deleted, now)
    IN  /\ scraped_data' = [i \in DOMAIN scraped_data \ deleted |-> scraped_data[i]]
        /\ logs' = [k \in {k \in DOMAIN logged : k[3] >= cutoff_date} |-> logged[k]]
        /\ metrics' = [k \in {k \in DOMAIN warned : k[2] >= metrics_cutoff} |->
                          warned[k]]
        /\ UNCHANGED <<now, advances, targets, jobs, ghost, data_seq, rate_cache,
                       robots_cache, queue, delivered, workers, probe, notifications>>

\* ------------------------------------------------------ update_daily_metrics
\* today_logs.filter(level=level).count() for target t.
CountLogs(rows, t, level, t_today) ==
    LET keys == {k \in DOMAIN rows :
                    k[1] = t /\ k[2] = level /\ today(k[3]) = t_today}
    IN  SumOver(keys, [k \in keys |-> rows[k]])

\* The body of the loop of update_daily_metrics for target t: the values it
\* computes from the job, data and log tables.  ScrapedData has no
\* items_scraped attribute, so the sum over today's data has no terms.  With
\* a completed job of today that has a stored response time the body
\* evaluates models.Avg, a name tasks.py never imports: it raises and the
\* loop goes on to the next target (raised |-> TRUE).
recomputed(t, t_now) ==
    LET today_jobs == {j \in DOMAIN jobs : /\ jobs[j].target = t
                                           /\ today(jobs[j].created_at) = today(t_now)}
        today_data == {i \in DOMAIN scraped_data :
                          /\ jobs[scraped_data[i].job].target = t
                          /\ today(scraped_data[i].scraped_at) = today(t_now)}
        completed_jobs == {j \in today_jobs : /\ jobs[j].status = "completed"
                                              /\ jobs[j].response_time_ms # NULL}
    IN  [raised |-> completed_jobs # {},
         row |->
           [jobs_scheduled |-> Cardinality(today_jobs),
            jobs_completed |->
                Cardinality({j \in today_jobs : jobs[j].status = "completed"}),
            jobs_failed |->
                Cardinality({j \in today_jobs : jobs[j].status = "failed"}),
            items_scraped |-> SumOver({}, <<>>),
            data_processed |->
                Cardinality({i \in today_data : scraped_data[i].status = "processed"}),
            avg_response_time_ms |-> NULL,
            total_response_size_bytes |-> 0,
            errors_count |-> CountLogs(logs, t, "error", today(t_now)),
            warnings_count |-> CountLogs(logs, t, "warning", today(t_now))]]

\* The task: ScrapingMetrics.objects.update_or_create(target, date=today,
\* defaults=recomputed values) for every target whose body did not raise.
update_daily_metrics ==
    LET keys == {<<t, today(now)>> : t \in {u \in Targets : ~recomputed(u, now).raised}}
    IN  /\ metrics' = [k \in DOMAIN metrics \cup keys |->
                          IF k \in keys THEN recomputed(k[1], now).row
                          ELSE metrics[k]]
        /\ UNCHANGED <<now, advances, targets, jobs, ghost, scraped_data, data_seq,
                       rate_cache, robots_cache, queue, delivered, workers, probe,
                       notifications, logs>>

\* ---------------------------------------------------------- parse_robots_txt
\* One call parse_robots_txt(content, DefaultUserAgent, url) on the arguments
\* held in `probe`.
parse_probe ==
    /\ probe.content # <<>>
    /\ ~probe.done
    /\ probe' = [probe EXCEPT !.done = TRUE,
                              !.allowed = parse_robots_txt(probe.content,
                                              DefaultUserAgent, probe.path)]
    /\ UNCHANGED <<now, advances, targets, jobs, ghost, scraped_data, data_seq,
                   metrics, rate_cache, robots_cache, queue, delivered, workers, notifications, logs>>

\* ---------------------------------------------------- extract_data_from_page
\* A page body is a sequence of tokens; a selector or pattern names one token
\* and finds its occurrences in order.  InvalidSelector stands for a selector
\* the parser of its family rejects.
Tokens == {"a", "b"}
InvalidSelector == "["
\* result.raw_html is None: the fetch or the parse has failed.
NoHtml == <<"None">>

\* Python values as they end in the output map: None, a scalar string, a list
\* of strings, the tuple of groups of one match, a list of such tuples; and
\* Raised for a call that raises instead of returning.
None == [tag |-> "none", v |-> <<>>]
Raised == [tag |-> "raised", v |-> <<>>]
Scalar(x) == [tag |-> "scalar", v |-> <<x>>]
List(xs) == [tag |-> "list", v |-> xs]

Occurrences(html, selector) == SelectSeq(html, LAMBDA x : x = selector)

\* "Return single value or list based on number of matches"
SingleOrList(values) ==
    IF Len(values) = 1 THEN Scalar(values[1])
    ELSE IF Len(values) > 1 THEN List(values)
    ELSE None

\* BeautifulSoup(html).select(selector); the text is markup only when it is
\* not a JSON document.
extract_with_css_selector(rule, page) ==
    IF page.raw_html = NoHtml \/ rule.selector = InvalidSelector THEN Raised
    ELSE IF page.is_json THEN None
    ELSE SingleOrList(Occurrences(page.raw_html, rule.selector))

\* etree.HTML(html).xpath(selector) inside its own try/except.
extract_with_xpath(rule, page) ==
    IF page.raw_html = NoHtml \/ rule.selector = InvalidSelector THEN None
    ELSE IF page.is_json THEN None
    ELSE SingleOrList(Occurrences(page.raw_html, rule.selector))

\* re.findall(pattern, html): one string per match for a pattern with at
\* most one capture group, one tuple of groups per match otherwise.
findall(rule, html) ==
    LET found == Occurrences(html, rule.selector)
    IN  IF rule.groups <= 1 THEN [tag |-> "strings", v |-> found]
        ELSE [tag |-> "tuples", v |-> found]

extract_with_regex(rule, page) ==
    IF page.raw_html = NoHtml \/ rule.selector = InvalidSelector THEN None
    ELSE LET matches == findall(rule, page.raw_html)
         IN  IF matches.v = <<>> THEN None
             ELSE IF Len(matches.v) = 1
             THEN IF matches.tag = "strings" THEN Scalar(matches.v[1])
                  ELSE [tag |-> "tuple",
                        v |-> [g \in 1 .. rule.groups |-> matches.v[1]]]
             ELSE IF matches.tag = "strings" THEN List(matches.v)
                  ELSE [tag |-> "list_of_tuples", v |-> matches.v]

\* json.loads(html) and the lookup of one key; json.loads(None) raises
\* TypeError, which the function does not catch.
extract_with_json_path(rule, page) ==
    IF page.raw_html = NoHtml THEN Raised
    ELSE IF ~page.is_json THEN None
    ELSE IF Occurrences(page.raw_html, rule.selector) # <<>>
    THEN Scalar(rule.selector)
    ELSE None

RuleTypes == {"css_selector", "xpath", "regex", "json_path"}

apply_scraping_rule(rule, page) ==
    LET value ==
            CASE rule.rule_type = "css_selector" -> extract_with_css_selector(rule, page)
              [] rule.rule_type = "xpath"        -> extract_with_xpath(rule, page)
              [] rule.rule_type = "regex"        -> extract_with_regex(rule, page)
              [] rule.rule_type = "json_path"    -> extract_with_json_path(rule, page)
              [] OTHER                           -> None
    IN  IF value = Raised THEN None ELSE value

\* A Python dict as the sequence of its items in insertion order:
\* d[key] = value replaces the value of a key in place or appends the item.
DictSet(d, key, value) ==
    IF \E i \in 1 .. Len(d) : d[i].key = key
    THEN [i \in 1 .. Len(d) |-> IF d[i].key = key
                                THEN [key |-> key, value |-> value] ELSE d[i]]
    ELSE Append(d, [key |-> key, value |-> value])

\* A faulty variant of the queryset that orders by descending priority;
\* RulesAppliedByPriority does not survive it.
OrdersDescending(rules) ==
    LET active == {i \in DOMAIN rules : rules[i].is_active}
    IN  {o \in [1 .. Cardinality(active) -> active] :
            /\ \A i, k \in DOMAIN o : i # k => o[i] # o[k]
            /\ \A i, k \in DOMAIN o :
                  i < k => rules[o[i]].priority >= rules[o[k]].priority}

\* ScrapingRule.objects.filter(target=, is_active=True).order_by('priority'):
\* the ids of the active rules in an order the database may return, which is
\* any order for rules of equal priority.
Orders(rules) ==
    LET active == {i \in DOMAIN rules : rules[i].is_active}
    IN  {o \in [1 .. Cardinality(active) -> active] :
            /\ \A i, k \in DOMAIN o : i # k => o[i] # o[k]
            /\ \A i, k \in DOMAIN o :
                  i < k => rules[o[i]].priority <= rules[o[k]].priority}

\* A faulty variant of the loop that stops at the first rule without a
\* value; FailingRuleSkipped does not survive it.
RECURSIVE ApplyRulesStoppingAtNone(_, _, _, _, _)
ApplyRulesStoppingAtNone(rules, order, page, n, d) ==
    IF n > Len(order) THEN d
    ELSE LET rule  == rules[order[n]]
             value == apply_scraping_rule(rule, page)
         IN  IF value = None THEN d
             ELSE ApplyRulesStoppingAtNone(rules, order, page, n + 1,
                                           DictSet(d, rule.name, value))

\* The loop over the rules in `order`, from rule n on, writing into d.
RECURSIVE ApplyRules(_, _, _, _, _)
ApplyRules(rules, order, page, n, d) ==
    IF n > Len(order) THEN d
    ELSE LET rule  == rules[order[n]]
             value == apply_scraping_rule(rule, page)
         IN  ApplyRules(rules, order, page, n + 1,
                        IF value # None THEN DictSet(d, rule.name, value) ELSE d)

\* Title, first paragraph of the content and the links of the page.
extract_default_data(page) ==
    LET d1 == IF page.title # "" THEN DictSet(<<>>, "title", Scalar(page.title))
              ELSE <<>>
        d2 == IF page.first_p # ""
              THEN DictSet(d1, "first_paragraph", Scalar(page.first_p))
              ELSE d1
        d3 == IF page.raw_html # NoHtml /\ page.raw_html # <<>>
              THEN DictSet(d2, "links", List(<<>>))
              ELSE d2
    IN  d3

extract_data_from_page(rules, order, page) ==
    IF order = <<>> THEN extract_default_data(page)
    ELSE ApplyRules(rules, order, page, 1, <<>>)

\* One call extract_data_from_page(target, result) on the rule table and page
\* held in `probe`.
extract_probe ==
    /\ ~probe.done
    /\ \E order \in Orders(probe.rules) :
          probe' = [probe EXCEPT !.done = TRUE, !.order = order,
                                 !.out = extract_data_from_page(probe.rules, order,
                                                                probe.page)]
    /\ UNCHANGED <<now, advances, targets, jobs, ghost, scraped_data, data_seq,
                   metrics, rate_cache, robots_cache, queue, delivered, workers, notifications, logs>>

\* -------------------------------------------------------------- Notification
Users == {"u1", "u2"}
UnreadStatuses == {"pending", "sent", "delivered"}

\* Everything but the notifications table.
ScrapingVars ==
    <<now, advances, targets, jobs, ghost, scraped_data, data_seq, metrics,
      rate_cache, robots_cache, queue, delivered, workers, probe, logs>>

\* A notification is created for `user` (NotificationViewSet.perform_create),
\* with the default status.
create_notification(user, max_notifications) ==
    /\ Cardinality(DOMAIN notifications) < max_notifications
    /\ notifications' = notifications @@
           (Cardinality(DOMAIN notifications) + 1 :>
               [recipient |-> user, status |-> "pending", read_at |-> NULL])
    /\ UNCHANGED ScrapingVars

\* The delivery side: mark_as_sent, mark_as_delivered, mark_as_failed.
mark_as_sent(n) ==
    /\ n \in DOMAIN notifications
    /\ notifications[n].status # "sent"
    /\ notifications' = [notifications EXCEPT ![n].status = "sent"]
    /\ UNCHANGED ScrapingVars

mark_as_delivered(n) ==
    /\ n \in DOMAIN notifications
    /\ notifications[n].status # "delivered"
    /\ notifications' = [notifications EXCEPT ![n].status = "delivered"]
    /\ UNCHANGED ScrapingVars

mark_as_failed(n) ==
    /\ n \in DOMAIN notifications
    /\ notifications[n].status # "failed"
    /\ notifications' = [notifications EXCEPT ![n].status = "failed"]
    /\ UNCHANGED ScrapingVars

\* A faulty variant of the queryset that forgets the recipient;
\* MarkAllReadLeavesNoUnread does not survive it.
OfAnyUser(rows, user) == DOMAIN rows

\* Notification.objects.filter(recipient=user)
OfUser(rows, user) == {n \in DOMAIN rows : rows[n].recipient = user}

\* queryset.update(status=READ, read_at=now) on the rows `ids`.
UpdateRead(rows, ids, t_now) ==
    [n \in DOMAIN rows |->
        IF n \in ids THEN [rows[n] EXCEPT !.status = "read", !.read_at = t_now]
        ELSE rows[n]]

\* NotificationViewSet.mark_read of the user's own notification n.
mark_as_read(user, n) ==
    /\ n \in OfUser(notifications, user)
    /\ notifications[n].status # "read"
    /\ notifications' = UpdateRead(notifications, {n}, now)
    /\ UNCHANGED ScrapingVars

\* NotificationViewSet.mark_unread of the user's own notification n.
mark_unread(user, n) ==
    /\ n \in OfUser(notifications, user)
    /\ notifications[n].status # "delivered" \/ notifications[n].read_at # NULL
    /\ notifications' = [notifications EXCEPT ![n].status = "delivered",
                                              ![n].read_at = NULL]
    /\ UNCHANGED ScrapingVars

\* NotificationViewSet.mark_all_read for the requesting user.
mark_all_read(user) ==
    /\ notifications' =
          UpdateRead(notifications,
                     {n \in OfUser(notifications, user) :
                         notifications[n].status \in UnreadStatuses},
                     now)
    /\ UNCHANGED ScrapingVars

\* NotificationService.mark_notifications_read(user, notification_ids); an
\* empty or missing list of ids means all of the user's notifications.
mark_notifications_read(user, notification_ids) ==
    LET mine     == OfUser(notifications, user)
        selected == IF notification_ids # {} THEN mine \cap notification_ids
                    ELSE mine
    IN  /\ notifications' =
              UpdateRead(notifications,
                         {n \in selected : notifications[n].status \in UnreadStatuses},
                         now)
        /\ UNCHANGED ScrapingVars

Next ==
    \/ scrape_scheduled_targets(MaxJobs)
    \/ \E t \in Targets : scrape_target_manual(t, MaxJobs)
    \/ \E m \in MaxRetriesArgs : retry_failed_jobs(m, MaxJobs)
    \/ \E w \in Workers, j \in DOMAIN jobs : Deliver(w, j)
    \/ \E w \in Workers, response \in RobotsResponses, result \in FetchResults :
          Fetch(w, response, result)
    \/ \E w \in Workers : Persist(w)
    \/ \E w \in Workers : SaveMetricsRow(w)
    \/ \E w \in Workers : RateRead(w)
    \/ \E w \in Workers : RateWrite(w)
    \/ \E j \in DOMAIN jobs : Redeliver(j, MaxRedeliveries)
    \/ \E j \in DOMAIN jobs : Cancel(j)
    \/ \E t \in Targets : make_active(t)
    \/ \E t \in Targets : make_paused(t)
    \/ \E t \in Targets : make_disabled(t)
    \/ \E i \in DOMAIN scraped_data, status \in DataStatuses :
          scraped_data_saved(i, status, MaxProcessed)
    \/ \E i \in DOMAIN scraped_data : mark_processed(i, MaxProcessed)
    \/ \E d \in DaysToKeepArgs : cleanup_old_data(d)
    \/ update_daily_metrics
    \/ \E u \in Users : create_notification(u, MaxNotifications)
    \/ \E n \in DOMAIN notifications : mark_as_sent(n)
    \/ \E n \in DOMAIN notifications : mark_as_delivered(n)
    \/ \E n \in DOMAIN notifications : mark_as_failed(n)
    \/ \E u \in Users, n \in DOMAIN notifications : mark_as_read(u, n)
    \/ \E u \in Users, n \in DOMAIN notifications : mark_unread(u, n)
    \/ \E u \in Users : mark_all_read(u)
    \/ \E u \in Users, ids \in SUBSET DOMAIN notifications :
          mark_notifications_read(u, ids)
    \/ \E d \in AdvanceSteps : Advance(d, MaxAdvances)

Spec == Init /\ [][Next]_vars

\* ------------------------------------------------------------------------
\* The full system above is too large to enumerate with two workers, so each
\* family of properties is checked in an environment that offers only the
\* operations the family is about.  Every behaviour of these specifications
\* is a behaviour of Spec.

\* Duplicate delivery and cancellation of one manual job of target 1.
InitDelivery ==
    InitWith({[t \in Targets |-> IF t = 1 THEN Target1(1) ELSE Paused(Target2(1, TRUE))]})

NextDelivery ==
    \/ scrape_target_manual(1, 1)
    \/ \E w \in Workers, j \in DOMAIN jobs : Deliver(w, j)
    \/ \E w \in Workers, response \in RobotsResponses, result \in FetchResults :
          Fetch(w, response, result)
    \/ \E w \in Workers : Persist(w)
    \/ \E w \in Workers : SaveMetricsRow(w)
    \/ \E w \in Workers : RateRead(w)
    \/ \E w \in Workers : RateWrite(w)
    \/ \E j \in DOMAIN jobs : Redeliver(j, MaxRedeliveries)
    \/ \E j \in DOMAIN jobs : Cancel(j)
    \/ \E d \in AdvanceSteps : Advance(d, MaxAdvances)

SpecDelivery == InitDelivery /\ [][NextDelivery]_vars

\* Scheduler ticks and manual runs of target 1 against the hourly limit.
InitGate ==
    InitWith({[t \in Targets |-> IF t = 1 THEN Target1(n) ELSE Paused(Target2(1, TRUE))] :
                n \in RateLimits})

NextGate ==
    \/ scrape_scheduled_targets(MaxJobs)
    \/ scrape_target_manual(1, MaxJobs)
    \/ \E w \in Workers, j \in DOMAIN jobs : Deliver(w, j)
    \/ \E w \in Workers, response \in RobotsResponses, result \in FetchResults :
          Fetch(w, response, result)
    \/ \E w \in Workers : Persist(w)
    \/ \E w \in Workers : SaveMetricsRow(w)
    \/ \E w \in Workers : RateRead(w)
    \/ \E w \in Workers : RateWrite(w)
    \/ \E d \in {1, MinutesPerHour} : Advance(d, MaxAdvances)

SpecGate == InitGate /\ [][NextGate]_vars

\* Every way a job of target 2, on the closed site, is created and run by a
\* worker, while the site answers every request for its robots.txt.
InitRobots ==
    InitWith({[t \in Targets |-> IF t = 1 THEN Paused(Target1(1))
                                          ELSE Target2(c[1], c[2])] :
                c \in {<<1, TRUE>>, <<2, TRUE>>, <<1, FALSE>>}})

NextRobots ==
    \/ scrape_scheduled_targets(MaxJobs)
    \/ scrape_target_manual(2, MaxJobs)
    \/ \E m \in MaxRetriesArgs : retry_failed_jobs(m, MaxJobs)
    \/ \E j \in DOMAIN jobs : Deliver("w1", j)
    \/ \E result \in FetchResults : Fetch("w1", "ok", result)
    \/ Persist("w1")
    \/ SaveMetricsRow("w1")
    \/ RateRead("w1")
    \/ RateWrite("w1")
    \/ Advance(MinutesPerHour, MaxAdvances)

SpecRobots == InitRobots /\ [][NextRobots]_vars

\* One manual job of target 1 and the retry task, run by a single worker
\* within one day, so that every metrics update is sequential.
InitRetry ==
    InitWith({[t \in Targets |-> IF t = 1 THEN Target1(n) ELSE Paused(Target2(1, TRUE))] :
                n \in RateLimits})

NextRetry ==
    \/ scrape_target_manual(1, 1)
    \/ \E m \in MaxRetriesArgs : retry_failed_jobs(m, MaxRetryJobs)
    \/ \E j \in DOMAIN jobs : Deliver("w1", j)
    \/ \E response \in RobotsResponses, result \in FetchResults :
          Fetch("w1", response, result)
    \/ Persist("w1")
    \/ SaveMetricsRow("w1")
    \/ RateRead("w1")
    \/ RateWrite("w1")

SpecRetry == InitRetry /\ [][NextRetry]_vars

\* Scheduler ticks as the clock advances, over a target 1 of every frequency
\* and a target 2 that an operator activates, pauses and disables.
FrequencyConfigs ==
    { <<"hourly", NULL>>, <<"daily", NULL>>, <<"weekly", NULL>>,
      <<"monthly", NULL>>, <<"custom", 1>>, <<"custom", 2>>, <<"custom", NULL>> }

InitSchedule ==
    InitWith({[t \in Targets |->
                 IF t = 1 THEN NewTarget(1, c[1], c[2], 1, TRUE, 0)
                          ELSE [Target2(1, FALSE) EXCEPT !.status = st]] :
                c \in FrequencyConfigs, st \in {"active", "paused", "disabled"}})

NextSchedule ==
    \/ scrape_scheduled_targets(MaxJobs)
    \/ make_active(2)
    \/ make_paused(2)
    \/ make_disabled(2)
    \/ \E d \in AdvanceSteps \cup {WeeklyMinutes, MonthlyMinutes} :
          Advance(d, MaxAdvances)

SpecSchedule == InitSchedule /\ [][NextSchedule]_vars

\* Scheduler ticks a minute apart while one worker runs the jobs: target 1 is
\* due every minute with a limit of one request per hour, target 2 is paused
\* until an operator activates it.
InitDenial ==
    InitWith({[t \in Targets |-> IF t = 1 THEN Target1(1)
                                          ELSE Paused(Target2(1, FALSE))]})

NextDenial ==
    \/ scrape_scheduled_targets(MaxJobs)
    \/ make_active(2)
    \/ \E j \in DOMAIN jobs : Deliver("w1", j)
    \/ \E result \in FetchResults : Fetch("w1", "ok", result)
    \/ Persist("w1")
    \/ SaveMetricsRow("w1")
    \/ RateRead("w1")
    \/ RateWrite("w1")
    \/ Advance(1, MaxAdvances)

SpecDenial == InitDenial /\ [][NextDenial]_vars

\* Manual jobs of target 1 run one after the other by one worker within one
\* day, with page fetches that take different times.
TimedResults ==
    FetchResults \cup
    { [kind |-> "ok", storable |-> TRUE, raw_len |-> 7,
       response_time_ms |-> 3, items |-> 2, error |-> ""] }

InitAverage ==
    InitWith({[t \in Targets |-> IF t = 1 THEN Target1(2)
                                          ELSE Paused(Target2(1, TRUE))]})

NextAverage ==
    \/ scrape_target_manual(1, MaxJobs)
    \/ \E j \in DOMAIN jobs : Deliver("w1", j)
    \/ \E result \in TimedResults : Fetch("w1", "ok", result)
    \/ Persist("w1")
    \/ SaveMetricsRow("w1")
    \/ RateRead("w1")
    \/ RateWrite("w1")

SpecAverage == InitAverage /\ [][NextAverage]_vars

\* Rows of target 1 that the operator reclassifies while the clock moves by
\* days and the cleanup task runs, each between two runs of the worker.
CleanupAdvanceSteps == {(MetricsDaysToKeep + 1) * MinutesPerDay}

InitCleanup ==
    InitWith({[t \in Targets |-> IF t = 1 THEN Target1(2)
                                          ELSE Paused(Target2(1, TRUE))]})

NextCleanup ==
    \/ scrape_target_manual(1, MaxJobs)
    \/ \E j \in DOMAIN jobs : Deliver("w1", j)
    \/ \E result \in {r \in FetchResults : r.storable /\ r.items = 0} :
          Fetch("w1", "ok", result)
    \/ Persist("w1")
    \/ SaveMetricsRow("w1")
    \/ RateRead("w1")
    \/ RateWrite("w1")
    \/ /\ workers["w1"].pc = "idle"
       /\ \E i \in DOMAIN scraped_data, status \in DataStatuses :
             scraped_data_saved(i, status, MaxProcessed)
    \/ /\ workers["w1"].pc = "idle"
       /\ \E d \in DaysToKeepArgs : cleanup_old_data(d)
    \/ /\ workers["w1"].pc = "idle"
       /\ \E d \in CleanupAdvanceSteps : Advance(d, MaxAdvances)

SpecCleanup == InitCleanup /\ [][NextCleanup]_vars

\* The place of a ScrapedData status on the path raw, processed, archived.
StatusRank(status) ==
    CASE status = "raw" -> 1 [] status = "processed" -> 2 [] status = "archived" -> 3

\* Rows of target 1 that the operator only ever moves forward on that path,
\* and on which mark_processed is called.
InitStatus ==
    InitWith({[t \in Targets |-> IF t = 1 THEN Target1(2)
                                          ELSE Paused(Target2(1, TRUE))]})

NextStatus ==
    \/ scrape_target_manual(1, MaxJobs)
    \/ \E j \in DOMAIN jobs : Deliver("w1", j)
    \/ \E result \in {r \in FetchResults : r.storable /\ r.items = 0} :
          Fetch("w1", "ok", result)
    \/ Persist("w1")
    \/ SaveMetricsRow("w1")
    \/ RateRead("w1")
    \/ RateWrite("w1")
    \/ /\ workers["w1"].pc = "idle"
       /\ \E i \in DOMAIN scraped_data, status \in DataStatuses :
             /\ StatusRank(status) > StatusRank(scraped_data[i].status)
             /\ scraped_data_saved(i, status, MaxProcessed)
    \/ /\ workers["w1"].pc = "idle"
       /\ \E i \in DOMAIN scraped_data : mark_processed(i, MaxProcessed)
    \/ /\ workers["w1"].pc = "idle"
       /\ Advance(MinutesPerDay, MaxAdvances)

SpecStatus == InitStatus /\ [][NextStatus]_vars

\* parse_robots_txt on every robots.txt of one group with two rules and every
\* path of ProbePaths.
RuleValues == {<<"/">>, <<"/", "a">>, <<"/", "a", "/", "b">>}
ProbePaths == RuleValues \cup {<<"/", "c">>}
ProbeAgents == {"*", DefaultUserAgent, "otherbot"}
ProbeRules == [directive : {"allow", "disallow"}, value : RuleValues]
ProbeContents ==
    {<<[directive |-> "user-agent", value |-> ua], r1, r2>> :
        ua \in ProbeAgents, r1 \in ProbeRules, r2 \in ProbeRules}

InitParse ==
    /\ InitTables({[t \in Targets |-> IF t = 1 THEN Target1(1)
                                            ELSE Target2(1, TRUE)]})
    /\ probe \in [content : ProbeContents, path : ProbePaths,
                  done : {FALSE}, allowed : {TRUE}]

NextParse == parse_probe

SpecParse == InitParse /\ [][NextParse]_vars

\* extract_data_from_page on every rule table of up to MaxRules rules with
\* distinct names (unique_together target, name) and every page of Pages.
RuleNames == <<"headline", "author", "body", "date">>

ActiveRules ==
    {r \in [rule_type : RuleTypes \cup {"unknown"}, selector : {"a", InvalidSelector},
            groups : {0, 2}, priority : {1, 2}, is_active : {TRUE}] :
        /\ r.groups = 2 => r.rule_type = "regex" /\ r.selector = "a"
        /\ r.selector = InvalidSelector => r.rule_type \in {"css_selector", "regex"}}

InactiveRule ==
    [rule_type |-> "css_selector", selector |-> "a", groups |-> 0,
     priority |-> 1, is_active |-> FALSE]

RuleTables ==
    UNION {{[i \in 1 .. n |-> [name |-> RuleNames[i],
                               rule_type |-> t[i].rule_type,
                               selector |-> t[i].selector,
                               groups |-> t[i].groups,
                               priority |-> t[i].priority,
                               is_active |-> t[i].is_active]] :
                t \in [1 .. n -> ActiveRules \cup {InactiveRule}]} :
           n \in 0 .. MaxRules}

Pages ==
    {pg \in [raw_html : {NoHtml, <<>>, <<"b">>, <<"a">>, <<"b", "a", "a">>},
             is_json : BOOLEAN, title : {"", "T"}, first_p : {"", "P"}] :
        pg.first_p = "P" => pg.title = "T"}

InitExtract ==
    /\ InitTables({[t \in Targets |-> IF t = 1 THEN Target1(1)
                                            ELSE Target2(1, TRUE)]})
    /\ probe \in [rules : RuleTables, page : Pages, done : {FALSE},
                  order : {<<>>}, out : {<<>>}]

NextExtract == extract_probe

SpecExtract == InitExtract /\ [][NextExtract]_vars

\* Two users, their notifications and the clock.
InitNotify ==
    InitWith({[t \in Targets |-> IF t = 1 THEN Target1(1)
                                          ELSE Target2(1, TRUE)]})

NextNotify ==
    \/ \E u \in Users : create_notification(u, MaxNotifications)
    \/ \E n \in DOMAIN notifications : mark_as_sent(n)
    \/ \E n \in DOMAIN notifications : mark_as_delivered(n)
    \/ \E n \in DOMAIN notifications : mark_as_failed(n)
    \/ \E u \in Users, n \in DOMAIN notifications : mark_as_read(u, n)
    \/ \E u \in Users, n \in DOMAIN notifications : mark_unread(u, n)
    \/ \E u \in Users : mark_all_read(u)
    \/ \E u \in Users, ids \in SUBSET DOMAIN notifications :
          mark_notifications_read(u, ids)
    \/ Advance(1, MaxAdvances)

SpecNotify == InitNotify /\ [][NextNotify]_vars

\* The periodic recomputation of the day's rows between runs of the worker on
\* manual jobs of target 1.
InitRecompute ==
    InitWith({[t \in Targets |-> IF t = 1 THEN Target1(2)
                                          ELSE Paused(Target2(1, TRUE))]})

NextRecompute ==
    \/ scrape_target_manual(1, MaxJobs)
    \/ \E j \in DOMAIN jobs : Deliver("w1", j)
    \/ \E result \in FetchResults : Fetch("w1", "ok", result)
    \/ Persist("w1")
    \/ SaveMetricsRow("w1")
    \/ RateRead("w1")
    \/ RateWrite("w1")
    \/ update_daily_metrics

SpecRecompute == InitRecompute /\ [][NextRecompute]_vars

\* Two targets on the open site, whose robots.txt disallows /p: target 1 at
\* /a and target 2 at /p, run by one worker while the site answers every
\* request for its robots.txt.
InitCache ==
    InitWith({[t \in Targets |->
                 IF t = 1 THEN Target1(2)
                 ELSE [Target2(2, TRUE) EXCEPT
                          !.url = [host |-> "open.test", path |-> <<"/", "p">>]]]})

NextCache ==
    \/ \E t \in Targets : scrape_target_manual(t, MaxJobs)
    \/ \E j \in DOMAIN jobs : Deliver("w1", j)
    \/ \E result \in FetchResults : Fetch("w1", "ok", result)
    \/ Persist("w1")
    \/ SaveMetricsRow("w1")
    \/ RateRead("w1")
    \/ RateWrite("w1")
    \/ Advance(MinutesPerHour, MaxAdvances)

SpecCache == InitCache /\ [][NextCache]_vars

\* ------------------------------------------------------------------------
\* Properties

JobIds == DOMAIN jobs

\* C1: for a target with max_requests_per_hour = N, at most N of the jobs
\* that the rate-limit gate let through (check_rate_limit returned true when
\* the job was created) in one calendar hour go on to fetch the page.
GatePermitsAtMostN ==
    \A j \in JobIds :
        Cardinality({k \in JobIds :
                        /\ jobs[k].target = jobs[j].target
                        /\ ghost[k].gated
                        /\ current_hour(jobs[k].created_at) =
                               current_hour(jobs[j].created_at)
                        /\ ghost[k].fetch_hours # <<>>})
            <= targets[jobs[j].target].max_requests_per_hour

\* C2: delivering a job id to the worker again changes nothing: a job has at
\* most one ScrapedData row, and the metrics rows of a target count each of
\* its jobs as completed at most once.
DuplicateDeliveryIdempotent ==
    /\ \A j \in JobIds :
          Cardinality({i \in DOMAIN scraped_data : scraped_data[i].job = j}) <= 1
    /\ \A key \in DOMAIN metrics :
          metrics[key].jobs_completed
              <= Cardinality({j \in JobIds : jobs[j].target = key[1]})

AllowedTransitions ==
    { <<"pending", "running">>, <<"running", "completed">>,
      <<"running", "failed">>, <<"pending", "cancelled">>,
      <<"running", "cancelled">> }

\* C3: every change of a job's status is one of the allowed transitions; a
\* completed, failed or cancelled job never changes status again.
OnlyAllowedTransitions ==
    [][\A j \in JobIds :
          jobs'[j].status # jobs[j].status =>
              <<jobs[j].status, jobs'[j].status>> \in AllowedTransitions]_vars

\* C4: started_at and completed_at are each written once, completed_at is
\* never earlier than started_at, and neither changes once the job is
\* completed or failed.
TimingWrittenOnce ==
    [][\A j \in JobIds :
          /\ jobs[j].started_at # NULL => jobs'[j].started_at = jobs[j].started_at
          /\ jobs[j].completed_at # NULL =>
                 jobs'[j].completed_at = jobs[j].completed_at
          /\ (jobs'[j].completed_at # NULL /\ jobs'[j].started_at # NULL) =>
                 jobs'[j].completed_at >= jobs'[j].started_at]_vars

\* C5: a job that is pending or running has success = null.
SuccessNullUntilTerminal ==
    \A j \in JobIds :
        jobs[j].status \in {"pending", "running"} => jobs[j].success = "null"

\* The host's robots.txt has `Disallow: /` in its `User-agent: *` group.
DisallowsAll(host) ==
    \E i \in 1 .. Len(RobotsTxt(host)) :
        /\ RobotsTxt(host)[i].directive = "disallow"
        /\ RobotsTxt(host)[i].value = <<"/">>
        /\ current_user_agent(RobotsTxt(host), i) = "*"

\* No page fetch and no ScrapedData row for job j, and once a worker is done
\* with it the job is failed with the robots.txt message.
NeverFetched(j) ==
    /\ ghost[j].fetch_hours = <<>>
    /\ \A i \in DOMAIN scraped_data : scraped_data[i].job # j
    /\ jobs[j].status \in {"pending", "running", "failed"}
    /\ jobs[j].status = "failed" => jobs[j].error_message = RobotsDisallowed

\* C6: a target whose host serves `Disallow: /` under `User-agent: *` is
\* never fetched, whatever its max_requests_per_hour: each of its jobs ends
\* failed without a page fetch and without a ScrapedData row.
DisallowedTargetNeverFetched ==
    \A j \in JobIds :
        DisallowsAll(targets[jobs[j].target].url.host) => NeverFetched(j)

\* C6, for targets with respect_robots_txt = true whose host answers every
\* request for robots.txt with the file: such a target is never fetched.
NeverFetchedWhenRespected ==
    \A j \in JobIds :
        (/\ targets[jobs[j].target].respect_robots_txt
         /\ DisallowsAll(targets[jobs[j].target].url.host)) => NeverFetched(j)

\* C6: a retry job of a respecting target on the closed site has been run and
\* has ended failed on the robots.txt check, like the job it retries.
RetryRefusedByRobots ==
    \E j \in JobIds :
        /\ targets[jobs[j].target].respect_robots_txt
        /\ DisallowsAll(targets[jobs[j].target].url.host)
        /\ jobs[j].job_type = "retry"
        /\ jobs[j].status = "failed"
        /\ jobs[j].error_message = RobotsDisallowed
        /\ jobs[ghost[j].retry_of].status = "failed"
        /\ workers["w1"].pc = "idle"

\* The retry jobs created so far for the failed job k.
RetriesOf(k) == {j \in JobIds : ghost[j].retry_of = k}

\* C7: over any number of runs of retry_failed_jobs, the retry jobs created
\* for one failed job never number more than the maximum retry count, the
\* default of max_retries.
RetriesBounded ==
    \A k \in JobIds : Cardinality(RetriesOf(k)) <= DefaultMaxRetries

\* C8: a manual run goes through the rate-limit gate: a step that creates a
\* manual job is taken only when the target's counter for the current hour
\* is below max_requests_per_hour.
ManualRunIsGated ==
    [][\A j \in DOMAIN jobs' \ DOMAIN jobs :
          jobs'[j].job_type = "manual" =>
              check_rate_limit(rate_cache, jobs'[j].target,
                               targets[jobs'[j].target], now)]_vars

\* No worker is busy and no message is waiting.
Quiescent ==
    /\ \A w \in Workers : workers[w].pc = "idle"
    /\ \A j \in JobIds : queue[j] = 0

MetricsRow(t, date) ==
    IF <<t, date>> \in DOMAIN metrics THEN metrics[<<t, date>>] ELSE ZeroMetrics

\* The jobs of target t that ended with `status` on day `date`.
Ended(t, date, status) ==
    {j \in JobIds : /\ jobs[j].target = t
                    /\ jobs[j].status = status
                    /\ today(jobs[j].completed_at) = date}

\* C9: when the jobs of a target have all ended completed on one day, run by
\* concurrent workers, the day's row counts every one of them and holds the
\* sums of their items and response sizes, whatever the interleaving.
NoLostMetricsUpdate ==
    \A t \in Targets :
        LET done == Ended(t, today(now), "completed")
            row  == MetricsRow(t, today(now))
        IN  (Quiescent /\ done = {j \in JobIds : jobs[j].target = t}) =>
                /\ row.jobs_completed + row.jobs_failed = Cardinality(done)
                /\ row.items_scraped =
                       SumOver(done, [j \in done |-> jobs[j].items_scraped])
                /\ row.total_response_size_bytes =
                       SumOver(done, [j \in done |-> ghost[j].response_size_bytes])

\* C10: every job that ends completed adds one to jobs_completed and every
\* job that ends failed adds one to jobs_failed of the day's row of its target.
TerminalJobsCounted ==
    \A t \in Targets :
        Quiescent =>
            /\ MetricsRow(t, today(now)).jobs_completed
                   = Cardinality(Ended(t, today(now), "completed"))
            /\ MetricsRow(t, today(now)).jobs_failed
                   = Cardinality(Ended(t, today(now), "failed"))

\* The ScrapedData rows stored for job j.
RowsOf(j) == {i \in DOMAIN scraped_data : scraped_data[i].job = j}

\* C11: a job an operator has cancelled stays cancelled while a worker goes on
\* with it: no step sets it to completed or failed and none stores a
\* ScrapedData row for it.
CancelledResultDiscarded ==
    [][\A j \in JobIds :
          jobs[j].status = "cancelled" =>
              /\ jobs'[j].status \notin {"completed", "failed"}
              /\ \A i \in DOMAIN scraped_data' \ DOMAIN scraped_data :
                    scraped_data'[i].job # j]_vars

\* C12: when the page fetch has failed, the worker's next step ends the job
\* failed with the fetch client's error as error_message and stores no
\* ScrapedData row.
FetchErrorRecorded ==
    [][\A w \in Workers :
          (/\ workers[w].pc = "fetched"
           /\ workers[w].inst.error = FetchError
           /\ workers'[w].pc # "fetched") =>
              /\ jobs'[workers[w].job].status = "failed"
              /\ jobs'[workers[w].job].error_message = FetchError
              /\ scraped_data' = scraped_data]_vars

\* The interval in minutes that a frequency stands for.
IntervalOf(target) ==
    CASE target.frequency = "hourly"  -> 60
      [] target.frequency = "daily"   -> 1440
      [] target.frequency = "weekly"  -> 10080
      [] target.frequency = "monthly" -> 43200
      [] target.frequency = "custom" /\ target.custom_interval_minutes # NULL ->
            target.custom_interval_minutes
      [] OTHER -> 1440

\* C13: whenever a target's last_scraped changes, it becomes the time of the
\* scheduled run and next_scrape_at becomes that time plus the interval of
\* the target's frequency, later than the next_scrape_at it had.
NextScrapeRecomputed ==
    [][\A t \in Targets :
          targets'[t].last_scraped # targets[t].last_scraped =>
              /\ targets'[t].last_scraped = now
              /\ targets'[t].next_scrape_at = now + IntervalOf(targets[t])
              /\ targets'[t].next_scrape_at > targets[t].next_scrape_at]_vars

\* C13: a custom target without an interval has been scheduled by a tick
\* after the clock advanced, and is next due a day after that tick.
CustomUnsetScheduledDaily ==
    /\ targets[1].frequency = "custom"
    /\ targets[1].custom_interval_minutes = NULL
    /\ targets[1].last_scraped = now
    /\ now > 0
    /\ targets[1].next_scrape_at = now + 1440
    /\ Len(jobs) >= 1

\* The jobs a step adds.
NewJobIds == DOMAIN jobs' \ DOMAIN jobs

\* C14: a scheduled job is created only for a target that is active and due
\* (next_scrape_at <= now) at the time of the tick.
ScheduledOnlyWhenActiveAndDue ==
    [][\A j \in NewJobIds :
          jobs'[j].job_type = "scheduled" =>
              /\ targets[jobs'[j].target].status = "active"
              /\ targets[jobs'[j].target].next_scrape_at # NULL
              /\ targets[jobs'[j].target].next_scrape_at <= now]_vars

\* C14: a tick has run at the current time while target 2 was paused or
\* disabled and past its next_scrape_at: target 1 got a job, target 2 none.
TickSkippedInactiveTarget ==
    /\ targets[2].status \in {"paused", "disabled"}
    /\ targets[2].next_scrape_at <= now
    /\ \A j \in JobIds : jobs[j].target # 2
    /\ \E j \in JobIds : /\ jobs[j].target = 1
                         /\ jobs[j].job_type = "scheduled"
                         /\ jobs[j].created_at = now
                         /\ now > 0

\* C15: in a tick that schedules some target, a due target that the gate
\* denies gets no job and no message, its row and the rate counters are left
\* as they were, and it is still due.
DenialLeavesTargetDue ==
    [][(\E j \in NewJobIds : jobs'[j].job_type = "scheduled") =>
          \A t \in Targets :
              (/\ IsDue(targets[t], now)
               /\ ~check_rate_limit(rate_cache, t, targets[t], now)) =>
                  /\ \A j \in NewJobIds : jobs'[j].target # t
                  /\ \A j \in JobIds : queue'[j] = queue[j]
                  /\ rate_cache' = rate_cache
                  /\ targets'[t] = targets[t]
                  /\ IsDue(targets'[t], now)]_vars

\* C15: a tick at the current time has scheduled target 2 while target 1 was
\* due and its counter for the hour had reached the limit.
TickDeniedTarget1 ==
    /\ IsDue(targets[1], now)
    /\ ~check_rate_limit(rate_cache, 1, targets[1], now)
    /\ \E j \in JobIds : /\ jobs[j].target = 2
                         /\ jobs[j].job_type = "scheduled"
                         /\ jobs[j].created_at = now
                         /\ jobs[j].status = "pending"

\* The jobs of target t that the gate let through in calendar hour h.
PermittedIn(t, h) ==
    {j \in JobIds : /\ jobs[j].target = t
                    /\ ghost[j].gated
                    /\ current_hour(jobs[j].created_at) = h}

\* C16: once the workers are done, the counter of a target and calendar
\* hour equals the number of requests the gate permitted for the target in
\* that hour, whether the jobs succeeded or failed.  Stated for targets all
\* of whose jobs came through the gate.
CounterCountsPermitted ==
    \A t \in Targets :
        (Quiescent /\ \A j \in JobIds : jobs[j].target = t => ghost[j].gated) =>
            \A h \in 0 .. current_hour(now) :
                CacheGetCount(rate_cache, <<t, h>>) = Cardinality(PermittedIn(t, h))

\* C17: a run of retry_failed_jobs leaves every job that existed as it was,
\* and each job it adds is a pending job of type retry, on the target of a
\* failed job, one for every failed job of an active target.
RetryLeavesOriginalAlone ==
    [][(\E j \in NewJobIds : jobs'[j].job_type = "retry") =>
          /\ \A k \in JobIds : jobs'[k] = jobs[k]
          /\ \A j \in NewJobIds :
                /\ jobs'[j].job_type = "retry"
                /\ jobs'[j].status = "pending"
                /\ ghost'[j].retry_of \in JobIds
                /\ jobs[ghost'[j].retry_of].status = "failed"
                /\ jobs'[j].target = jobs[ghost'[j].retry_of].target
          /\ \A k \in JobIds :
                (jobs[k].status = "failed" /\ targets[jobs[k].target].status = "active")
                    => Cardinality({j \in NewJobIds : ghost'[j].retry_of = k}) = 1]_vars

\* C17: a retry job has run to completion while the job it retries is still
\* failed, with its error message and times as they were.
RetrySucceededOriginalFailed ==
    \E j \in JobIds :
        /\ jobs[j].job_type = "retry"
        /\ jobs[j].status = "completed"
        /\ jobs[ghost[j].retry_of].status = "failed"
        /\ jobs[ghost[j].retry_of].success = "false"
        /\ jobs[ghost[j].retry_of].error_message = IntegrityError
        /\ jobs[ghost[j].retry_of].completed_at # NULL

\* The completed jobs of target t on day `date` whose fetch took a measurable
\* time.
TimedJobs(t, date) ==
    {j \in Ended(t, date, "completed") :
        ghost[j].response_time_ms # NULL /\ ghost[j].response_time_ms > 0}

\* C18: once the worker is done, the day's avg_response_time_ms of a target
\* is the arithmetic mean of the response times of the day's completed jobs
\* of the target that have one.
AverageIsMean ==
    \A t \in Targets :
        LET timed == TimedJobs(t, today(now))
        IN  (Quiescent /\ timed # {}) =>
                MetricsRow(t, today(now)).avg_response_time_ms * Cardinality(timed)
                    = SumOver(timed, [j \in timed |-> ghost[j].response_time_ms])

\* C19: a run of cleanup_old_data(days_to_keep) removes every row that is
\* archived and was scraped more than days_to_keep days ago, and removes or
\* changes no other row.
CleanupDeletesOldArchived ==
    [][\A d \in DaysToKeepArgs :
          cleanup_old_data(d) =>
              /\ DOMAIN scraped_data' \subseteq DOMAIN scraped_data
              /\ \A i \in DOMAIN scraped_data :
                    IF /\ scraped_data[i].status = "archived"
                       /\ scraped_data[i].scraped_at < now - d * MinutesPerDay
                    THEN i \notin DOMAIN scraped_data'
                    ELSE /\ i \in DOMAIN scraped_data'
                         /\ scraped_data'[i] = scraped_data[i]]_vars

\* C19 witness: the table has handed out two ids, the older row has been
\* deleted and the newer one, archived as well, is still there.
OldArchivedRowDeleted ==
    /\ data_seq = 2
    /\ DOMAIN scraped_data = {2}
    /\ scraped_data[2].status = "archived"
    /\ \E k \in DOMAIN metrics : metrics[k].warnings_count = 1

\* The rule values of `directive` in the groups that apply to user_agent.
Applicable(content, user_agent, directive) ==
    {content[i].value : i \in {i \in 1 .. Len(content) :
        /\ content[i].directive = directive
        /\ current_user_agent(content, i) \in {"*", user_agent}}}

\* C20: a path is allowed exactly when every applicable Disallow prefix that
\* matches it is overridden by a longer applicable Allow prefix that matches
\* it too.
LongerAllowOverrides ==
    probe.done =>
        (probe.allowed <=>
            \A d \in Applicable(probe.content, DefaultUserAgent, "disallow") :
                StartsWith(probe.path, d) =>
                    \E a \in Applicable(probe.content, DefaultUserAgent, "allow") :
                        StartsWith(probe.path, a) /\ Len(a) > Len(d))

\* C21: when parsing the fetched response has failed, the worker's next step
\* still ends the job completed and stores a ScrapedData row for it.
ParseFailureStillStored ==
    [][\A w \in Workers :
          (/\ workers[w].pc = "fetched"
           /\ workers[w].inst.error = ParseError
           /\ workers'[w].pc # "fetched") =>
              /\ jobs'[workers[w].job].status = "completed"
              /\ \E i \in DOMAIN scraped_data' \ DOMAIN scraped_data :
                    scraped_data'[i].job = workers[w].job]_vars

\* The keys of an output map and the value under a key.
Keys(d) == {d[i].key : i \in 1 .. Len(d)}
Get(d, key) == d[CHOOSE i \in 1 .. Len(d) : d[i].key = key].value

\* What the extractor of a rule's family does with the page, on its own.
Extractor(rule, page) ==
    CASE rule.rule_type = "css_selector" -> extract_with_css_selector(rule, page)
      [] rule.rule_type = "xpath"        -> extract_with_xpath(rule, page)
      [] rule.rule_type = "regex"        -> extract_with_regex(rule, page)
      [] rule.rule_type = "json_path"    -> extract_with_json_path(rule, page)
      [] OTHER                           -> Raised

\* The active rules of the table in `probe`.
ActiveIds == {i \in DOMAIN probe.rules : probe.rules[i].is_active}

\* C22: with rules applied, a rule that raises or is of an unknown kind has
\* no key in the output, and every other active rule has its own value under
\* its name, or no key when it finds nothing.
FailingRuleSkipped ==
    (probe.done /\ ActiveIds # {}) =>
        \A i \in ActiveIds :
            LET rule  == probe.rules[i]
                value == Extractor(rule, probe.page)
            IN  IF value \in {Raised, None}
                THEN rule.name \notin Keys(probe.out)
                ELSE /\ rule.name \in Keys(probe.out)
                     /\ Get(probe.out, rule.name) = value

\* C22 witness: the first rule applied is of an unknown kind or raises, and
\* the output holds the value of the rule after it.
FailedThenExtracted ==
    /\ probe.done
    /\ Len(probe.order) = 2
    /\ probe.rules[probe.order[1]].rule_type \in {"unknown", "css_selector"}
    /\ Extractor(probe.rules[probe.order[1]], probe.page) = Raised
    /\ Keys(probe.out) = {probe.rules[probe.order[2]].name}

\* The active pattern rules of the table in `probe` whose pattern compiles,
\* applied to a page that has a body.
PatternIds ==
    {i \in ActiveIds : /\ probe.rules[i].rule_type = "regex"
                       /\ probe.rules[i].selector # InvalidSelector
                       /\ probe.page.raw_html # NoHtml}

\* The output for pattern rule i has the shape the number of matches calls
\* for: no key for none, a scalar for one, the list of all of them otherwise.
ShapeFollowsMatchCount(i) ==
    LET rule  == probe.rules[i]
        found == Occurrences(probe.page.raw_html, rule.selector)
    IN  CASE Len(found) = 0 -> rule.name \notin Keys(probe.out)
          [] Len(found) = 1 -> /\ rule.name \in Keys(probe.out)
                               /\ Get(probe.out, rule.name) = Scalar(found[1])
          [] OTHER          -> /\ rule.name \in Keys(probe.out)
                               /\ Get(probe.out, rule.name) = List(found)

\* C24: every pattern rule's output follows the number of matches: no key, a
\* scalar, or the ordered list of the matches.
PatternShape ==
    probe.done => \A i \in PatternIds : ShapeFollowsMatchCount(i)

\* The positions in the order of application at which a rule yields a value
\* for `key`.
Writers(key) ==
    {n \in 1 .. Len(probe.order) :
        /\ probe.rules[probe.order[n]].name = key
        /\ Extractor(probe.rules[probe.order[n]], probe.page) \notin {Raised, None}}

\* The least of a non-empty set of positions.
First(S) == CHOOSE n \in S : \A m \in S : n <= m

DataStatusMovesForward ==
    [][\A i \in DOMAIN scraped_data \cap DOMAIN scraped_data' :
          StatusRank(scraped_data'[i].status) >= StatusRank(scraped_data[i].status)]_vars

\* What the claim says of a step for `user`: afterwards none of the user's
\* notifications is unread, no row has come or gone, and the rows of other
\* users are as before.
AllReadFor(user) ==
    /\ DOMAIN notifications' = DOMAIN notifications
    /\ \A n \in DOMAIN notifications :
          IF notifications[n].recipient = user
          THEN /\ notifications'[n].recipient = user
               /\ notifications'[n].status \notin {"pending", "sent", "delivered"}
          ELSE notifications'[n] = notifications[n]

\* C26: a mark_all_read of a user, and a mark_notifications_read without
\* ids, leave none of the user's notifications pending, sent or delivered and
\* change no notification of another user.
MarkAllReadLeavesNoUnread ==
    [][\A u \in Users :
          /\ mark_all_read(u) => AllReadFor(u)
          /\ mark_notifications_read(u, {}) => AllReadFor(u)]_vars

\* C26 witness: u1 has marked everything read at minute 1 while u2 still has
\* an unread notification.
AllReadButOthers ==
    /\ now = 1
    /\ \E n \in DOMAIN notifications :
          /\ notifications[n].recipient = "u1"
          /\ notifications[n].status = "read"
          /\ notifications[n].read_at = 1
    /\ \E n \in DOMAIN notifications :
          /\ notifications[n].recipient = "u2"
          /\ notifications[n].status \in {"sent", "delivered"}

\* The robots.txt rules of the target's host, evaluated on the target's own
\* path.
RulesAllow(t) ==
    parse_robots_txt(RobotsTxt(targets[t].url.host), DefaultUserAgent,
                     targets[t].url.path)

\* C27: for a target that respects robots.txt, the answer the worker got,
\* from the cache or not, is the evaluation of the host's rules on the
\* target's path: a job went on to fetch only if the rules allow the path,
\* and was refused only if they do not.
AnswerMatchesOwnPath ==
    \A j \in JobIds :
        targets[jobs[j].target].respect_robots_txt =>
            /\ ghost[j].fetch_hours # <<>> => RulesAllow(jobs[j].target)
            /\ (jobs[j].status = "failed" /\ jobs[j].error_message = RobotsDisallowed)
                  => ~RulesAllow(jobs[j].target)

\* C28: the stored row of a job that scrape_website completed successfully
\* holds the response time and the response size measured for its fetch.
CompletedJobStoresMeasurements ==
    \A j \in JobIds :
        (jobs[j].status = "completed" /\ jobs[j].success = "true") =>
            /\ jobs[j].response_time_ms = ghost[j].response_time_ms
            /\ jobs[j].response_size_bytes = ghost[j].response_size_bytes

\* The counters of a metrics row that are maintained as jobs end and logs
\* are written.
Counters(row) ==
    <<row.jobs_completed, row.jobs_failed, row.items_scraped,
      row.total_response_size_bytes, row.errors_count, row.warnings_count>>

\* C29: a run of update_daily_metrics while no worker is in the middle of a
\* job leaves the maintained counters of every existing row of today as they
\* were.
RecomputeAgreesWithRow ==
    [][(update_daily_metrics /\ \A w \in Workers : workers[w].pc = "idle") =>
          \A t \in Targets :
              <<t, today(now)>> \in DOMAIN metrics =>
                  Counters(metrics'[<<t, today(now)>>])
                      = Counters(metrics[<<t, today(now)>>])]_vars

\* Worker w returns from scrape_website in this step.
Returns(w) == workers[w].pc # "idle" /\ workers'[w].pc = "idle"

\* C30: whenever scrape_website returns for a job, whichever of its steps
\* succeeded or raised, the job is completed or failed.
ReturnLeavesJobTerminal ==
    [][\A w \in Workers :
          Returns(w) => jobs'[workers[w].job].status \in {"completed", "failed"}]_vars

====
